---- MODULE Spec2Model ----
(***************************************************************************)
(* Model of claude_question_handler.py: the prompt parser                  *)
(* (parse_multiple_choice), the session locator (find_claude_session),     *)
(* detect_question, send_answer and the watch loop (watch_for_questions);  *)
(* of codex_pty_wrapper.py: the read loop and the cleanup of               *)
(* run_codex_resume; and of iterm_runner.py: the polling loop of           *)
(* run_in_iterm.                                                           *)
(*                                                                         *)
(* Text is modelled as sequences of characters. A character is a one-char  *)
(* string, except for four fixed phrases the code searches for, which are   *)
(* kept as single symbols: "Enter to select", "Tab/Arrow" and the two      *)
(* spellings "Type something" / "type something".                          *)
(***************************************************************************)
EXTENDS Integers, Sequences, FiniteSets, TLC

\* ---------------------------------------------------------------- bounds
MaxLines == 4      \* longest free-form screen text, in lines
MaxOpts == 3       \* most options on a convention-built screen
MaxDesc == 2       \* most description lines under one option
MaxTicks == 3      \* passes of the watch loop that are explored
MaxFaults == 1     \* most screen reads that raise in one run
MaxChanges == 2    \* most screen redraws during one watch run
MaxPad == 10       \* most filler lines between the header and the body
MaxTail == 4       \* most lines after the body of a free-form prompt
MaxHead == 3       \* most lines before the options of a free-form prompt
ShortTimeout == 2  \* the timeout of run_codex_resume when queries are written
Slack == 3         \* seconds the long timeout leaves after the idle limit

\* ------------------------------------------------------------ characters
BOX == "U+2610"
CHECKED == "U+2611"
SELECTOR == "U+276F"
GT == ">"
SP == " "
TAB == "\t"
DOT == "."
ENTER_TO_SELECT == "Enter to select"
TAB_ARROW == "Tab/Arrow"
TYPE_SOMETHING == "Type something"
type_something == "type something"

ESC == "\\x1B"
COLON == ":"

Whitespace == {SP, TAB}
Digits == {"0", "1", "2", "3", "4", "5", "6", "7", "8", "9"}

DigitVal(c) ==
    CASE c = "0" -> 0 [] c = "1" -> 1 [] c = "2" -> 2 [] c = "3" -> 3
      [] c = "4" -> 4 [] c = "5" -> 5 [] c = "6" -> 6 [] c = "7" -> 7
      [] c = "8" -> 8 [] c = "9" -> 9

\* int(): decimal value of a digit string
RECURSIVE ToInt(_)
ToInt(s) ==
    IF s = <<>> THEN 0
    ELSE 10 * ToInt(SubSeq(s, 1, Len(s) - 1)) + DigitVal(s[Len(s)])

\* str.lower() on one symbol
LowerChar(c) == IF c = TYPE_SOMETHING THEN type_something ELSE c

\* 'sub' in s, for the phrases kept as single symbols
Contains(s, c) == \E i \in 1..Len(s) : s[i] = c

\* number of leading characters of s, from position p (1-based), that are in set
RECURSIVE SpanFrom(_, _, _)
SpanFrom(s, p, set) ==
    IF p <= Len(s) /\ s[p] \in set THEN 1 + SpanFrom(s, p + 1, set) ELSE 0

\* number of trailing whitespace characters of s
RECURSIVE TrailingWs(_)
TrailingWs(s) ==
    IF s # <<>> /\ s[Len(s)] \in Whitespace
    THEN 1 + TrailingWs(SubSeq(s, 1, Len(s) - 1)) ELSE 0

\* str.strip()
Strip(s) ==
    LET lead == SpanFrom(s, 1, Whitespace) IN
    IF lead = Len(s) THEN <<>>
    ELSE SubSeq(s, lead + 1, Len(s) - TrailingWs(s))

NoMatch == [matched |-> FALSE]

\* re.search(r'[☐☑]\s*(.+)', line): the leftmost glyph that has at least one
\* character after it; group(1).strip() is the stripped remainder
HeaderSearch(line) ==
    LET cands == {p \in 1..Len(line) : line[p] \in {BOX, CHECKED} /\ p < Len(line)} IN
    IF cands = {} THEN NoMatch
    ELSE LET p == CHOOSE q \in cands : \A r \in cands : q <= r IN
         [matched |-> TRUE, header |-> Strip(SubSeq(line, p + 1, Len(line)))]

\* re.match(r'^[❯>\s]*\d+\.', line)
LooksLikeOption(line) ==
    LET a == SpanFrom(line, 1, {SELECTOR, GT} \cup Whitespace)
        d == SpanFrom(line, a + 1, Digits)
    IN  d >= 1 /\ a + d + 1 <= Len(line) /\ line[a + d + 1] = DOT

\* re.match(r'^(\s*[❯>]?\s*)(\d+)\.\s*(.+)$', line)
OptionMatch(line) ==
    LET w1 == SpanFrom(line, 1, Whitespace)
        s  == IF w1 + 1 <= Len(line) /\ line[w1 + 1] \in {SELECTOR, GT} THEN 1 ELSE 0
        w2 == SpanFrom(line, w1 + s + 1, Whitespace)
        pre == w1 + s + w2
        d  == SpanFrom(line, pre + 1, Digits)
        dot == pre + d + 1
    IN  IF d >= 1 /\ dot < Len(line) /\ line[dot] = DOT
        THEN [matched |-> TRUE,
              prefix |-> SubSeq(line, 1, pre),
              digits |-> SubSeq(line, pre + 1, pre + d),
              rest |-> SubSeq(line, dot + 1, Len(line))]
        ELSE NoMatch

\* ------------------------------------------------- parse_multiple_choice
None == [found |-> FALSE]
LOOKAHEAD == 10

\* lines[i] with the source's 0-based index
Line(lines, i) == lines[i + 1]

\* mutant of FindHeader: header_idx starts at 0 instead of -1
RECURSIVE FindHeaderDefaultZero(_, _)
FindHeaderDefaultZero(lines, i) ==
    IF i >= Len(lines) THEN [header_idx |-> 0, header |-> <<>>]
    ELSE LET line == Line(lines, i)
             m == HeaderSearch(line)
         IN  IF (Contains(line, BOX) \/ Contains(line, CHECKED)) /\ m.matched
             THEN [header_idx |-> i, header |-> m.header]
             ELSE FindHeaderDefaultZero(lines, i + 1)

\* mutant of FindHeader: the scan ends at the first line holding a glyph
RECURSIVE FindHeaderFirstGlyphLine(_, _)
FindHeaderFirstGlyphLine(lines, i) ==
    IF i >= Len(lines) THEN [header_idx |-> -1, header |-> <<>>]
    ELSE LET line == Line(lines, i)
             m == HeaderSearch(line)
         IN  IF Contains(line, BOX) \/ Contains(line, CHECKED)
             THEN IF m.matched THEN [header_idx |-> i, header |-> m.header]
                  ELSE [header_idx |-> -1, header |-> <<>>]
             ELSE FindHeaderFirstGlyphLine(lines, i + 1)

\* the header loop: index and header of the first line that holds a checkbox
\* glyph and matches the header pattern; header_idx = -1 when there is none
RECURSIVE FindHeader(_, _)
FindHeader(lines, i) ==
    IF i >= Len(lines) THEN [header_idx |-> -1, header |-> <<>>]
    ELSE LET line == Line(lines, i)
             m == HeaderSearch(line)
         IN  IF (Contains(line, BOX) \/ Contains(line, CHECKED)) /\ m.matched
             THEN [header_idx |-> i, header |-> m.header]
             ELSE FindHeader(lines, i + 1)

Min(a, b) == IF a < b THEN a ELSE b

\* mutant of FindQuestion: the scan runs to the end of the text
RECURSIVE FindQuestionUnbounded(_, _, _)
FindQuestionUnbounded(lines, i, stop) ==
    IF i >= Len(lines) THEN [question_idx |-> -1, question |-> <<>>]
    ELSE LET line == Strip(Line(lines, i)) IN
         IF line = <<>> THEN FindQuestionUnbounded(lines, i + 1, stop)
         ELSE IF LooksLikeOption(line) THEN [question_idx |-> -1, question |-> <<>>]
         ELSE IF line[1] # ENTER_TO_SELECT THEN [question_idx |-> i, question |-> line]
         ELSE FindQuestionUnbounded(lines, i + 1, stop)

\* the question loop over range(header_idx + 1, min(header_idx + 10, len(lines)))
RECURSIVE FindQuestion(_, _, _)
FindQuestion(lines, i, stop) ==
    IF i >= stop THEN [question_idx |-> -1, question |-> <<>>]
    ELSE LET line == Strip(Line(lines, i)) IN
         IF line = <<>> THEN FindQuestion(lines, i + 1, stop)
         ELSE IF LooksLikeOption(line) THEN [question_idx |-> -1, question |-> <<>>]
         ELSE IF line[1] # ENTER_TO_SELECT THEN [question_idx |-> i, question |-> line]
         ELSE FindQuestion(lines, i + 1, stop)

NoOption == [present |-> FALSE]

\* mutant of NewOption: only the U+276F glyph counts as the selector
NewOptionGlyphOnly(m) ==
    LET label == Strip(m.rest) IN
    [present |-> TRUE,
     number |-> ToInt(m.digits),
     label |-> label,
     description |-> <<>>,
     is_selected |-> Contains(m.prefix, SELECTOR),
     is_text_input |-> \E j \in 1..Len(label) : LowerChar(label[j]) = type_something]

NewOption(m) ==
    LET label == Strip(m.rest) IN
    [present |-> TRUE,
     number |-> ToInt(m.digits),
     label |-> label,
     description |-> <<>>,
     is_selected |-> Contains(m.prefix, SELECTOR) \/ Contains(m.prefix, GT),
     is_text_input |-> \E j \in 1..Len(label) : LowerChar(label[j]) = type_something]

\* mutant of AppendDescription: a further line replaces the description
AppendDescriptionKeepsLast(opt, desc) == [opt EXCEPT !.description = desc]

AppendDescription(opt, desc) ==
    [opt EXCEPT !.description =
        IF opt.description # <<>> THEN opt.description \o <<SP>> \o desc ELSE desc]

\* mutant of SelectedIndexAt: a marker on a later option is ignored once one
\* option was marked
SelectedIndexAtKeepsFirst(opt, saved, selected_index) ==
    IF opt.is_selected /\ \A j \in 1..Len(saved) : ~saved[j].is_selected
    THEN Len(saved) ELSE selected_index

\* mutant of SelectedIndexAt: the index is taken after the new option is counted
SelectedIndexAtOffByOne(opt, saved, selected_index) ==
    IF opt.is_selected THEN Len(saved) + 1 ELSE selected_index

\* mutant of SelectedIndexAt: the index is taken from the number displayed
SelectedIndexAtOrdinal(opt, saved, selected_index) ==
    IF opt.is_selected THEN opt.number - 1 ELSE selected_index

\* "if is_selected: selected_index = len(options)"
SelectedIndexAt(opt, saved, selected_index) ==
    IF opt.is_selected THEN Len(saved) ELSE selected_index

\* mutant of IsFooter: only the first phrase ends the scan
IsFooterEnterOnly(line) == Contains(line, ENTER_TO_SELECT)

\* 'Enter to select' in line or 'Tab/Arrow' in line
IsFooter(line) == Contains(line, ENTER_TO_SELECT) \/ Contains(line, TAB_ARROW)

\* the option loop over range(question_idx + 1, len(lines)), followed by the
\* append of the option in progress
RECURSIVE ScanOptions(_, _, _, _, _)
ScanOptions(lines, i, options, selected_index, current_option) ==
    LET finish == [options |-> IF current_option.present
                               THEN Append(options, current_option) ELSE options,
                   selected_index |-> selected_index]
    IN
    IF i >= Len(lines) THEN finish
    ELSE LET line == Line(lines, i)
             m == OptionMatch(line)
         IN
         IF IsFooter(line) THEN finish
         ELSE IF m.matched THEN
             LET saved == IF current_option.present
                          THEN Append(options, current_option) ELSE options
                 opt == NewOption(m)
             IN  ScanOptions(lines, i + 1, saved,
                             SelectedIndexAt(opt, saved, selected_index),
                             opt)
         ELSE IF current_option.present /\ Strip(line) # <<>> THEN
             ScanOptions(lines, i + 1, options, selected_index,
                         AppendDescription(current_option, Strip(line)))
         ELSE ScanOptions(lines, i + 1, options, selected_index, current_option)

parse_multiple_choice(lines) ==
    LET h == FindHeader(lines, 0) IN
    IF h.header_idx = -1 THEN None
    ELSE
    LET q == FindQuestion(lines, h.header_idx + 1,
                          Min(h.header_idx + LOOKAHEAD, Len(lines))) IN
    IF q.question = <<>> THEN None
    ELSE
    LET r == ScanOptions(lines, q.question_idx + 1, <<>>, 0, NoOption) IN
    IF r.options = <<>> THEN None
    ELSE [found |-> TRUE,
          header |-> h.header,
          question |-> q.question,
          options |-> r.options,
          selected_index |-> r.selected_index,
          has_text_option |-> \E j \in 1..Len(r.options) : r.options[j].is_text_input]

\* ------------------------------------------------------------ strip_ansi
UpperLetters == {"A", "B", "H", "Q", "R"}
LowerLetters == {"d", "e", "h", "i", "m", "x"}
Phrases == {ENTER_TO_SELECT, TAB_ARROW, TYPE_SOMETHING, type_something}

\* what is left of a phrase symbol when its first character is consumed
PhraseRest(c) ==
    CASE c = ENTER_TO_SELECT -> "nter to select"
      [] c = TAB_ARROW -> "ab/Arrow"
      [] c \in {TYPE_SOMETHING, type_something} -> "ype something"

\* first character in [@-Z\\-_]
InFeClass(c) == c \in UpperLetters \cup {"@", "]", "^", "_"}
                    \cup {ENTER_TO_SELECT, TAB_ARROW, TYPE_SOMETHING}
\* [0-?]
ParamClass == Digits \cup {":", ";", "<", "=", ">", "?"}
\* [ -/]
InterClass == {SP, "!", "#", "$", "%", "&", "(", ")", "*", "+", ",", "-", DOT, "/"}
\* first character in [@-~]
InFinalClass(c) == InFeClass(c) \/ c \in LowerLetters \cup {"[", "{", "|", "}", "~"}
                      \/ c = type_something

\* the text after the match when its last character is the one at position p
AfterFinal(s, p) ==
    (IF s[p] \in Phrases THEN <<PhraseRest(s[p])>> ELSE <<>>) \o SubSeq(s, p + 1, Len(s))

\* ansi_escape.sub('', text) on one line: ESC, then one character of [@-Z\\-_],
\* or '[' with parameter, intermediate and final characters
RECURSIVE StripAnsiLine(_)
StripAnsiLine(s) ==
    IF s = <<>> THEN <<>>
    ELSE IF s[1] # ESC THEN <<s[1]>> \o StripAnsiLine(Tail(s))
    ELSE IF Len(s) >= 2 /\ InFeClass(s[2]) THEN StripAnsiLine(AfterFinal(s, 2))
    ELSE IF Len(s) >= 2 /\ s[2] = "[" THEN
        LET a == SpanFrom(s, 3, ParamClass)
            b == SpanFrom(s, 3 + a, InterClass)
            f == 3 + a + b
        IN  IF f <= Len(s) /\ InFinalClass(s[f]) THEN StripAnsiLine(AfterFinal(s, f))
            ELSE <<s[1]>> \o StripAnsiLine(Tail(s))
    ELSE <<s[1]>> \o StripAnsiLine(Tail(s))

\* no pattern of strip_ansi matches a newline, so a match never spans lines
strip_ansi(lines) == [i \in DOMAIN lines |-> StripAnsiLine(lines[i])]

\* ------------------------------------------------------ screen texts
\* A screen text is the sequence of its lines (screen_text.split('\n')).
BlankLine == <<>>
HeaderLine == <<BOX, SP, "H">>
BodyLine == <<"Q", "?">>
OtherBodyLine == <<"R", "?">>
FooterLine == <<ENTER_TO_SELECT, SP, TAB_ARROW>>
DescLine == <<SP, SP, SP, "d">>

CatalogueLines ==
    { BlankLine,
      <<SP>>,
      HeaderLine,
      <<CHECKED>>,
      BodyLine,
      <<SELECTOR, SP, "Q">>,
      <<SELECTOR, SP, "1", DOT, SP, "A">>,
      <<SP, SP, "2", DOT, SP, "B">>,
      <<GT, "3", DOT, SP, TYPE_SOMETHING>>,
      <<"1", DOT>>,
      DescLine,
      FooterLine }

\* every text of 1..MaxLines catalogue lines
FreeTexts == UNION {[1..n -> CatalogueLines] : n \in 1..MaxLines}

DigitOf(i) == CASE i = 1 -> "1" [] i = 2 -> "2" [] i = 3 -> "3" [] i = 4 -> "4"
                [] i = 5 -> "5" [] i = 6 -> "6" [] i = 7 -> "7" [] i = 8 -> "8"
                [] OTHER -> "9"

\* n copies of a line
RECURSIVE Repeat(_, _)
Repeat(line, n) == IF n = 0 THEN <<>> ELSE <<line>> \o Repeat(line, n - 1)

\* parameters of a screen in the format of the parse_multiple_choice docstring:
\* n options, the marker on the option at position k, descs[i] description
\* lines under option i, option i a "Type something" option iff texts[i]
ConvParams ==
    UNION {[n : {n}, k : 0..(n - 1), descs : [1..n -> 0..MaxDesc],
            texts : [1..n -> BOOLEAN], gaps : BOOLEAN, marker : {SELECTOR, GT},
            body : {BodyLine, OtherBodyLine}]
           : n \in 1..MaxOpts}

ConvOptionLine(p, i) ==
    (IF p.k = i - 1 THEN <<p.marker, SP>> ELSE <<SP, SP>>)
    \o <<DigitOf(i), DOT, SP>>
    \o (IF p.texts[i] THEN <<TYPE_SOMETHING, DOT>> ELSE <<"A">>)

RECURSIVE ConvOptions(_, _)
ConvOptions(p, i) ==
    IF i > p.n THEN <<>>
    ELSE <<ConvOptionLine(p, i)>> \o Repeat(DescLine, p.descs[i]) \o ConvOptions(p, i + 1)

ConvScreen(p) ==
    LET gap == IF p.gaps THEN <<BlankLine>> ELSE <<>> IN
    <<HeaderLine>> \o gap \o <<p.body>> \o gap \o ConvOptions(p, 1) \o gap
    \o <<FooterLine>>

NotBuilt == [conv |-> FALSE, n |-> 0, k |-> 0]

\* a prompt scrolled down by lead lines, with pad filler lines between the
\* header and the body
PadParams == [lead : 0..1, pad : 0..MaxPad, fill : {BlankLine, <<SP>>}]

PaddedScreen(p) ==
    Repeat(<<"$">>, p.lead) \o <<HeaderLine>> \o Repeat(p.fill, p.pad)
    \o <<BodyLine, <<SELECTOR, SP, "1", DOT, SP, "A">>, FooterLine>>

\* lines met after the body: blank lines, description lines, option lines
\* with and without a marker, the footer and a line holding only its second
\* phrase
TailLines ==
    { BlankLine,
      <<SP>>,
      DescLine,
      <<TAB, "e", SP>>,
      <<SELECTOR, SP, "1", DOT, SP, "A">>,
      <<SP, SP, "2", DOT, SP, "B">>,
      <<GT, "3", DOT, SP, TYPE_SOMETHING>>,
      FooterLine,
      <<"x", SP, TAB_ARROW>> }

\* lines met before the options: blank lines, lines with a checkbox glyph
\* with and without text after it, a body, lines that look like options and
\* the footer
HeadLines ==
    { BlankLine,
      <<CHECKED>>,
      HeaderLine,
      <<SP, CHECKED, SP>>,
      BodyLine,
      <<"1", DOT>>,
      <<SP, SP, "2", DOT, SP, "B">>,
      FooterLine }

\* up to MaxHead lines followed by an option line and the footer
HeadScreens ==
    {h \o <<<<SELECTOR, SP, "1", DOT, SP, "A">>, FooterLine>>
        : h \in UNION {[1..n -> HeadLines] : n \in 0..MaxHead}}

\* a header and a body followed by up to MaxTail lines
TailScreens ==
    {<<HeaderLine, BodyLine>> \o t : t \in UNION {[1..n -> TailLines] : n \in 0..MaxTail}}

\* ------------------------------------------------- sessions and screens
\* app.terminal_windows: windows, each a sequence of tabs, each a sequence of
\* session ids
SessA == <<"a">>
SessB == <<"b">>
SessC == <<"c">>
App == << << <<SessA>>, <<SessB>> >>, << <<SessC>> >> >>

RECURSIVE Concat(_)
Concat(ss) == IF ss = <<>> THEN <<>> ELSE Head(ss) \o Concat(Tail(ss))

\* for window in app.terminal_windows: for tab in window.tabs:
\*     for session in tab.sessions
Enumerate(app) == Concat([w \in DOMAIN app |-> Concat(app[w])])

SessionOrder == Enumerate(App)
SessionIds == {SessionOrder[i] : i \in DOMAIN SessionOrder}
NoSession == <<>>

\* every line wrapped in a bold / reset pair of CSI sequences
Styled(lines) ==
    [i \in DOMAIN lines |-> <<ESC, "[", "1", "m">> \o lines[i] \o <<ESC, "[", "0", "m">>]

ShellScreen == << <<"$", SP, "x">> >>
ArrowScreen == << <<SELECTOR, SP, "x">> >>
\* the screen of spec section 8: three options, the first selected and
\* described, the third a "Type something" option
RefScreen ==
    ConvScreen([n |-> 3, k |-> 0, descs |-> <<1, 0, 0>>,
                texts |-> <<FALSE, FALSE, TRUE>>, gaps |-> TRUE,
                marker |-> SELECTOR, body |-> BodyLine])
\* as drawn with styling: the last option selected, the first and the last
\* both "Type something" options
TextFirstScreen ==
    Styled(ConvScreen([n |-> 3, k |-> 2, descs |-> <<0, 0, 0>>,
                       texts |-> <<TRUE, FALSE, TRUE>>, gaps |-> FALSE,
                       marker |-> GT, body |-> OtherBodyLine]))
PlainScreen ==
    ConvScreen([n |-> 2, k |-> 1, descs |-> <<0, 1>>,
                texts |-> <<FALSE, FALSE>>, gaps |-> TRUE,
                marker |-> SELECTOR, body |-> OtherBodyLine])

\* a prompt drawn with the checked box and the '>' marker, its options
\* numbered 3 and 1: neither glyph of the locator's test is on it
OrdinalScreen ==
    << <<CHECKED, SP, "H">>,
       OtherBodyLine,
       <<SP, SP, "3", DOT, SP, "A">>,
       <<GT, SP, "1", DOT, SP, "B">>,
       FooterLine >>

SysScreens == {ShellScreen, ArrowScreen, RefScreen, TextFirstScreen, PlainScreen,
               OrdinalScreen}
WatchScreens == {ShellScreen, RefScreen, PlainScreen}

\* ITERM_SESSION_ID: "<window/tab/pane>:<session id>"
EnvValues == {<<"w", COLON>> \o sid : sid \in SessionIds \cup {<<"z">>}}

\* session_id.split(':', 1)[1] when ':' is in the value, else the value
RECURSIVE AfterFirstColon(_)
AfterFirstColon(v) ==
    IF v = <<>> THEN <<>>
    ELSE IF Head(v) = COLON THEN Tail(v) ELSE AfterFirstColon(Tail(v))

OwnSessionId(v) == IF Contains(v, COLON) THEN AfterFirstColon(v) ELSE v

\* ------------------------------------------------------ find_claude_session
\* '<selector glyph>' in screen_text or '<unchecked box>' in screen_text
HasIndicator(lines) ==
    \E i \in 1..Len(lines) : Contains(lines[i], SELECTOR) \/ Contains(lines[i], BOX)

\* mutant of FindFrom: a failed read ends the scan and is raised to the caller
RECURSIVE FindFromAbortOnError(_, _, _, _, _, _)
FindFromAbortOnError(order, i, own, scr, fails, examined) ==
    IF i > Len(order) THEN [session |-> NoSession, examined |-> examined, raised |-> FALSE]
    ELSE LET sid == order[i] IN
         IF sid = own
         THEN FindFromAbortOnError(order, i + 1, own, scr, fails, examined)
         ELSE IF sid \in fails
         THEN [session |-> NoSession, examined |-> Append(examined, sid), raised |-> TRUE]
         ELSE IF HasIndicator(scr[sid])
         THEN [session |-> sid, examined |-> Append(examined, sid), raised |-> FALSE]
         ELSE FindFromAbortOnError(order, i + 1, own, scr, fails, Append(examined, sid))

\* mutant of FindFrom: a later matching session replaces an earlier one
RECURSIVE FindFromLastMatch(_, _, _, _, _, _)
FindFromLastMatch(order, i, own, scr, fails, examined) ==
    IF i > Len(order) THEN [session |-> NoSession, examined |-> examined, raised |-> FALSE]
    ELSE LET sid == order[i]
             later == FindFromLastMatch(order, i + 1, own, scr, fails,
                                        Append(examined, sid))
         IN
         IF sid = own
         THEN FindFromLastMatch(order, i + 1, own, scr, fails, examined)
         ELSE IF sid \in fails
         THEN later
         ELSE IF HasIndicator(scr[sid]) /\ later.session = NoSession
         THEN [session |-> sid, examined |-> Append(examined, sid), raised |-> FALSE]
         ELSE later

\* mutant of FindFrom: the session running the script is scanned like the others
RECURSIVE FindFromIncludesOwn(_, _, _, _, _, _)
FindFromIncludesOwn(order, i, own, scr, fails, examined) ==
    IF i > Len(order) THEN [session |-> NoSession, examined |-> examined, raised |-> FALSE]
    ELSE LET sid == order[i] IN
         IF sid \in fails
         THEN FindFromIncludesOwn(order, i + 1, own, scr, fails, Append(examined, sid))
         ELSE IF HasIndicator(scr[sid])
         THEN [session |-> sid, examined |-> Append(examined, sid), raised |-> FALSE]
         ELSE FindFromIncludesOwn(order, i + 1, own, scr, fails, Append(examined, sid))

\* the three nested loops of find_claude_session from position i of the
\* enumeration; fails is the set of sessions whose get_screen_text raises;
\* examined lists the sessions whose screen was requested
RECURSIVE FindFrom(_, _, _, _, _, _)
FindFrom(order, i, own, scr, fails, examined) ==
    IF i > Len(order) THEN [session |-> NoSession, examined |-> examined, raised |-> FALSE]
    ELSE LET sid == order[i] IN
         IF sid = own
         THEN FindFrom(order, i + 1, own, scr, fails, examined)
         ELSE IF sid \in fails
         THEN FindFrom(order, i + 1, own, scr, fails, Append(examined, sid))
         ELSE IF HasIndicator(scr[sid])
         THEN [session |-> sid, examined |-> Append(examined, sid), raised |-> FALSE]
         ELSE FindFrom(order, i + 1, own, scr, fails, Append(examined, sid))

find_claude_session(envv, scr, fails) ==
    FindFrom(SessionOrder, 1, OwnSessionId(envv), scr, fails, <<>>)

\* app.get_session_by_id(target_session_id)
get_session_by_id(target) == IF target \in SessionIds THEN target ELSE NoSession

NotLocated == [session |-> NoSession, examined |-> <<>>, raised |-> FALSE]

\* "if target_session_id: ... else: session = await find_claude_session(app)"
SelectSession(target, envv, scr, fails) ==
    IF target # <<>>
    THEN [session |-> get_session_by_id(target), examined |-> <<>>, raised |-> FALSE]
    ELSE find_claude_session(envv, scr, fails)

\* ------------------------------------------------------------ send_answer
DownKey == <<ESC, "[", "B">>
UpKey == <<ESC, "[", "A">>
Enter == <<"\r">>

\* the two arrow loops: moves > 0 sends Down moves times, moves < 0 sends Up
\* abs(moves) times
ArrowKeys(moves) ==
    IF moves > 0 THEN [i \in 1..moves |-> DownKey]
    ELSE IF moves < 0 THEN [i \in 1..(0 - moves) |-> UpKey]
    ELSE <<>>

\* seq[i] with Python's indexing: 0-based, negative indices count from the end
PyIndex(seq, i) == IF i < 0 THEN seq[Len(seq) + i + 1] ELSE seq[i + 1]

\* text_option_idx: index of the first is_text_input option, -1 for None
RECURSIVE FirstTextOption(_, _)
FirstTextOption(options, i) ==
    IF i >= Len(options) THEN -1
    ELSE IF options[i + 1].is_text_input THEN i
    ELSE FirstTextOption(options, i + 1)

\* mutant of TextKeys: the arrows are sent but the text is typed at once
TextKeysNoEnter(question, content) ==
    LET text_option_idx == FirstTextOption(question.options, 0) IN
    (IF text_option_idx # -1
     THEN ArrowKeys(text_option_idx - question.selected_index) \o <<Enter>> ELSE <<>>)
    \o <<content, Enter>>

\* mutant of TextKeys: no navigation to the "Type something" option
TextKeysNoMoves(question, content) == <<Enter, content, Enter>>

\* what the "if text:" branch sends, in order
TextKeys(question, content) ==
    LET text_option_idx == FirstTextOption(question.options, 0) IN
    (IF text_option_idx # -1
     THEN ArrowKeys(text_option_idx - question.selected_index) ELSE <<>>)
    \o <<Enter, content, Enter>>

\* mutant of ChoiceKeys: the 1-based choice is used as the 0-based index
ChoiceKeysOneBased(question, target_idx) ==
    ArrowKeys((target_idx + 1) - question.selected_index) \o <<Enter>>

\* what the "elif choice is not None:" branch sends for a valid target_idx
ChoiceKeys(question, target_idx) ==
    ArrowKeys(target_idx - question.selected_index) \o <<Enter>>

\* mutant of InvalidChoice: the lower bound is not checked
InvalidChoiceUpperOnly(target_idx, options) == target_idx >= Len(options)

\* "if target_idx < 0 or target_idx >= len(question.options)"
InvalidChoice(target_idx, options) == target_idx < 0 \/ target_idx >= Len(options)

\* ----------------------------------------------------- watch_for_questions
\* mutant of QuestionKey: the key is the question text alone
QuestionKeyBodyOnly(sid, question) == question.question

\* key = f"{session.session_id}:{question.question}"
QuestionKey(sid, question) == sid \o <<COLON>> \o question.question

\* mutant of MarkSeen: the key is not recorded
MarkSeenForgets(seen_questions, key) == seen_questions

\* seen_questions.add(key)
MarkSeen(seen_questions, key) == seen_questions \cup {key}

\* mutant of ReturnAfterEmit: the loop returns after any emission
ReturnAfterEmitAlways(args_once) == TRUE

\* "if args.once: return"
ReturnAfterEmit(args_once) == args_once

\* ------------------------------------------------------------- state
\* ----------------------------- codex_pty_wrapper.py: run_codex_resume
IDLE_LIMIT == 30
READ_SIZE == 8192

CPR_QUERY == <<ESC, "[", "6", "n">>
DA_QUERY == <<ESC, "[", "c">>
DA0_QUERY == <<ESC, "[", "0", "c">>
CPR_REPLY == "\\x1B[1;1R"
DA_REPLY == "\\x1B[?1;2c"

\* sub in data, for byte strings
HasSub(data, sub) ==
    \E i \in 1..(Len(data) - Len(sub) + 1) : SubSeq(data, i, i + Len(sub) - 1) = sub

\* the replies the loop writes to the master for one chunk it has read
QueryReplies(data) ==
    (IF HasSub(data, CPR_QUERY) THEN <<CPR_REPLY>> ELSE <<>>)
    \o (IF HasSub(data, DA_QUERY) \/ HasSub(data, DA0_QUERY) THEN <<DA_REPLY>> ELSE <<>>)

\* while time.time() - start < timeout
LoopRuns(elapsed_s, limit) == elapsed_s < limit

\* if time.time() - last_output > 30 and time.time() - start > 30
IdleTooLong(elapsed_s, last) == elapsed_s - last > IDLE_LIMIT /\ elapsed_s > IDLE_LIMIT

\* mutant of CleanupSignals: the child is never killed
CleanupSignalsNoKill(alive, exited_in_wait) ==
    IF alive THEN <<"terminate">> ELSE <<>>

\* the signals sent after the loop: terminate if p.poll() is None, then kill
\* when p.wait(timeout=5) raises
CleanupSignals(alive, exited_in_wait) ==
    IF ~alive THEN <<>>
    ELSE IF exited_in_wait THEN <<"terminate">>
    ELSE <<"terminate", "kill">>

\* byte streams the child writes: with queries (short runs), without (long runs)
QueryScripts ==
    {CPR_QUERY, DA_QUERY, DA0_QUERY,
     CPR_QUERY \o CPR_QUERY,
     <<"x">> \o CPR_QUERY \o DA_QUERY,
     DA0_QUERY \o <<"x">> \o DA_QUERY}
PlainScripts == {<<>>, <<"x">>, <<"x", "x">>}

\* ------------------------------------------- iterm_runner.py: main
MAX_WAIT == 600

\* the two marker strings are kept as single symbols, like the command
MARKER_START == "__RCODEGEN_START_pid__"
MARKER_END == "__RCODEGEN_END_pid__"
COMMAND == "command"
QUOTE == "\""
SEMI == ";"
NL == "\n"

\* full_cmd, as the shell's line shows it after its prompt
TypedLine ==
    <<"$", SP, "e", "c", "h", "o", SP, QUOTE, MARKER_START, QUOTE, SEMI, SP, COMMAND, SEMI,
      SP, "e", "c", "h", "o", SP, QUOTE, MARKER_END, QUOTE>>

\* "\n".join(lines)
RECURSIVE JoinLines(_)
JoinLines(lines) ==
    IF lines = <<>> THEN <<>>
    ELSE IF Len(lines) = 1 THEN lines[1]
    ELSE lines[1] \o <<NL>> \o JoinLines(Tail(lines))

\* the lines the terminal shows: nothing, then the typed line, then what the
\* first echo, the command (n lines so far) and the last echo have printed
ScreenLines(phase, out, n) ==
    (IF phase = "sent" THEN <<>> ELSE <<TypedLine>>)
    \o (IF phase \in {"started", "finished"} THEN <<<<MARKER_START>>>> ELSE <<>>)
    \o SubSeq(out, 1, n)
    \o (IF phase = "finished" THEN <<<<MARKER_END>>>> ELSE <<>>)

\* str.find for a one-symbol needle: 0-based index of the first one, -1 for none
RECURSIVE FindSym(_, _, _)
FindSym(str, c, i) ==
    IF i >= Len(str) THEN -1
    ELSE IF str[i + 1] = c THEN i
    ELSE FindSym(str, c, i + 1)

\* str[a:b] for 0 <= a, 0 <= b
Slice(str, a, b) ==
    IF a >= Min(b, Len(str)) THEN <<>> ELSE SubSeq(str, a + 1, Min(b, Len(str)))

\* str.strip(), the newline being whitespace too
StripText(str) ==
    LET ws == Whitespace \cup {NL}
        lead == SpanFrom(str, 1, ws)
        last == CHOOSE j \in 0..Len(str) :
                    /\ j = 0 \/ str[j] \notin ws
                    /\ \A k \in (j + 1)..Len(str) : str[k] \in ws
    IN  IF lead = Len(str) THEN <<>> ELSE SubSeq(str, lead + 1, last)

\* lines 58-61: the text between the first marker_start and the first marker_end
ExtractOutput(full_output) ==
    LET start_idx == FindSym(full_output, MARKER_START, 0)
        end_idx == FindSym(full_output, MARKER_END, 0)
    IN  IF start_idx # -1 /\ end_idx # -1
        THEN StripText(Slice(full_output, start_idx + 1, end_idx))
        ELSE <<>>

\* what the command prints, line by line
CommandOutputs == {<<>>, << <<"o">> >>, << <<"o">>, <<SP, "p">> >>}

VARIABLES
    text,       \* parser run: the screen text handed to parse_multiple_choice
    built,      \* parser run: how text was built (convention parameters or not)
    ppc,        \* parser run: "off" | "ready" | "parsed"
    result,     \* parser run: the value parse_multiple_choice returned
    pc,         \* command run: "off" | "start" | "done" | "watch" | "returned"
    env,        \* ITERM_SESSION_ID
    screens,    \* session id -> the text its screen shows
    args,       \* arguments of the detect / answer call
    fails,      \* sessions whose screen read raised during the last scan
    located,    \* what the session selection returned, and the sessions it read
    asked,      \* the Question send_answer / detect_question parsed, or None
    outcome,    \* what the call returned ("uncaught": an exception left it)
    sent,       \* texts passed to session.async_send_text, in order
    once,       \* watch: args.once
    tick,       \* watch: number of passes of the while loop made so far
    seen,       \* watch: seen_questions
    emitted,    \* watch: the question_detected events printed so far
    wread,      \* watch: sessions whose screen was requested in the last pass
    faults,     \* watch: number of reads that raised so far
    changes,    \* watch: number of screen redraws so far
    wrap_pc,    \* run_codex_resume: "off" | "loop" | "cleanup" | "returned"
    timeout,    \* run_codex_resume: its timeout argument, in seconds
    now,        \* run_codex_resume: time.time() - start, in seconds
    last_output,\* run_codex_resume: last_output - start
    child,      \* the codex process: "running" | "exited"
    script,     \* bytes the child has yet to write
    pty,        \* bytes the child wrote that were not read yet
    output,     \* run_codex_resume: output
    replies,    \* what os.write put on the master, in order
    master_open,\* whether the master descriptor is open
    polled,     \* what p.poll() showed at line 86: "none" | "running" | "exited"
    signals,    \* signals sent to the child, in order
    left_by,    \* how the loop was left
    run_pc,     \* iterm_runner: "off" | "poll" | "closed"
    elapsed,    \* iterm_runner: time.time() - start_time, in seconds
    term,       \* the new session: "off" | "sent" | "echoed" | "started" | "finished"
    cmd_out,    \* the lines the command prints
    printed,    \* how many of them it has printed so far
    captured    \* iterm_runner: output

pvars == <<text, built, ppc, result>>
cvars == <<args, located, asked, outcome, sent>>
wvars == <<once, tick, seen, emitted, wread, faults, changes>>
xvars == <<wrap_pc, timeout, now, last_output, child, script, pty, output, replies,
           master_open, polled, signals, left_by>>
rvars == <<run_pc, elapsed, term, cmd_out, printed, captured>>
vars == <<text, built, ppc, result, pc, env, screens, args, fails, located,
          asked, outcome, sent, once, tick, seen, emitted, wread, faults, changes,
          wrap_pc, timeout, now, last_output, child, script, pty, output, replies,
          master_open, polled, signals, left_by,
          run_pc, elapsed, term, cmd_out, printed, captured>>

NoArgs == [target |-> <<>>, choice_given |-> FALSE, choice |-> 0, text |-> <<>>]
NoOutcome == [op |-> "none", kind |-> "none", session_id |-> NoSession, label |-> <<>>]

CommandIdle ==
    /\ args = NoArgs
    /\ fails = {}
    /\ located = NotLocated
    /\ asked = None
    /\ outcome = NoOutcome
    /\ sent = <<>>

WatchIdle ==
    /\ tick = 0
    /\ seen = {}
    /\ emitted = <<>>
    /\ wread = <<>>
    /\ faults = 0
    /\ changes = 0

WrapperIdle ==
    /\ wrap_pc = "off"
    /\ timeout = 0
    /\ now = 0
    /\ last_output = 0
    /\ child = "exited"
    /\ script = <<>>
    /\ pty = <<>>
    /\ output = <<>>
    /\ replies = <<>>
    /\ master_open = FALSE
    /\ polled = "none"
    /\ signals = <<>>
    /\ left_by = "none"

RunnerIdle ==
    /\ run_pc = "off"
    /\ elapsed = 0
    /\ term = "off"
    /\ cmd_out = <<>>
    /\ printed = 0
    /\ captured = <<>>

\* ------------------------------------------------------- parser runs
ParseInit ==
    /\ \/ text \in FreeTexts /\ built = NotBuilt
       \/ \E p \in ConvParams :
            /\ text = ConvScreen(p)
            /\ built = [conv |-> TRUE, n |-> p.n, k |-> p.k]
    /\ ppc = "ready"
    /\ result = None
    /\ pc = "off"
    /\ env = <<>>
    /\ screens = <<>>
    /\ once = FALSE
    /\ CommandIdle
    /\ WatchIdle
    /\ WrapperIdle
    /\ RunnerIdle

Parse ==
    /\ ppc = "ready"
    /\ result' = parse_multiple_choice(text)
    /\ ppc' = "parsed"
    /\ UNCHANGED <<text, built, pc, env, screens, fails, cvars, wvars, xvars, rvars>>

ParseNext == Parse

ParseSpec == ParseInit /\ [][ParseNext]_vars

\* parser runs on texts that vary one step of the parser at a time: the
\* lines up to the body, the distance of the body from the header, the lines
\* after the body
StepInit ==
    /\ \/ text \in HeadScreens
       \/ \E p \in PadParams : text = PaddedScreen(p)
       \/ text \in TailScreens
    /\ built = NotBuilt
    /\ ppc = "ready"
    /\ result = None
    /\ pc = "off"
    /\ env = <<>>
    /\ screens = <<>>
    /\ once = FALSE
    /\ CommandIdle
    /\ WatchIdle
    /\ WrapperIdle
    /\ RunnerIdle

StepNext == Parse

StepSpec == StepInit /\ [][StepNext]_vars

\* ------------------------------------------------------ command runs
\* a detect or answer command starts with any screens; a watch command with
\* screens that show no prompt or one of two prompts with different bodies
Init ==
    /\ text = <<>>
    /\ built = NotBuilt
    /\ ppc = "off"
    /\ result = None
    /\ env \in EnvValues
    /\ CommandIdle
    /\ WatchIdle
    /\ WrapperIdle
    /\ RunnerIdle
    /\ \/ /\ pc = "start"
          /\ screens \in [SessionIds -> SysScreens]
          /\ once = FALSE
       \/ /\ pc = "watch"
          /\ screens \in [SessionIds -> WatchScreens]
          /\ once \in BOOLEAN

\* clean_text = strip_ansi(screen_text); question = parse_multiple_choice(clean_text)
ParsedScreen == [scr \in SysScreens |-> parse_multiple_choice(strip_ansi(scr))]

Targets == {<<>>, SessB, <<"z">>}
Choices == (0 - 1)..(MaxOpts + 1)
Texts == {<<>>, <<"h", "i">>}

\* the sets of sessions whose read may raise when at most n reads raise
FaultSets(n) == {fs \in SUBSET SessionIds : Cardinality(fs) <= n}

\* no session is scanned when a target is given
ScanFaults(target) == IF target # <<>> THEN {{}} ELSE FaultSets(MaxFaults)

\* detect_question(connection, target_session_id)
Detect ==
    /\ pc = "start"
    /\ \E target \in Targets : \E fs \in ScanFaults(target) : \E readOk \in BOOLEAN :
        LET loc == SelectSession(target, env, screens, fs)
            question == ParsedScreen[screens[loc.session]]
        IN  /\ args' = [NoArgs EXCEPT !.target = target]
            /\ fails' = fs
            /\ located' = loc
            /\ IF loc.raised THEN
                   /\ readOk
                   /\ asked' = None
                   /\ outcome' = [NoOutcome EXCEPT !.op = "detect", !.kind = "uncaught"]
               ELSE IF loc.session = NoSession THEN
                   /\ readOk
                   /\ asked' = None
                   /\ outcome' = [NoOutcome EXCEPT !.op = "detect",
                                                   !.kind = "no_claude_session"]
               ELSE IF ~readOk THEN
                   /\ asked' = None
                   /\ outcome' = [NoOutcome EXCEPT !.op = "detect", !.kind = "uncaught",
                                                   !.session_id = loc.session]
               ELSE
                   /\ asked' = question
                   /\ outcome' = [NoOutcome EXCEPT !.op = "detect",
                                     !.kind = IF question.found THEN "found"
                                              ELSE "not_found",
                                     !.session_id = loc.session]
    /\ pc' = "done"
    /\ UNCHANGED <<pvars, env, screens, sent, wvars, xvars, rvars>>

\* mutant of AnswerPlan: the arrows are sent before the range check
AnswerPlanMovesFirst(question, a) ==
    IF a.text # <<>> THEN
        [keys |-> TextKeys(question, a.text), kind |-> "typed_text", label |-> <<>>]
    ELSE IF a.choice_given THEN
        LET target_idx == a.choice - 1 IN
        IF InvalidChoice(target_idx, question.options)
        THEN [keys |-> ArrowKeys(target_idx - question.selected_index),
              kind |-> "invalid_choice", label |-> <<>>]
        ELSE [keys |-> ChoiceKeys(question, target_idx), kind |-> "selected_option",
              label |-> PyIndex(question.options, target_idx).label]
    ELSE [keys |-> <<>>, kind |-> "no_action", label |-> <<>>]

\* the keys send_answer sends and the result it returns once a question is parsed
AnswerPlan(question, a) ==
    IF a.text # <<>> THEN
        [keys |-> TextKeys(question, a.text), kind |-> "typed_text", label |-> <<>>]
    ELSE IF a.choice_given THEN
        LET target_idx == a.choice - 1 IN
        IF InvalidChoice(target_idx, question.options)
        THEN [keys |-> <<>>, kind |-> "invalid_choice", label |-> <<>>]
        ELSE [keys |-> ChoiceKeys(question, target_idx), kind |-> "selected_option",
              label |-> PyIndex(question.options, target_idx).label]
    ELSE [keys |-> <<>>, kind |-> "no_action", label |-> <<>>]

\* send_answer(connection, choice, text, target_session_id); delivered is the
\* number of async_send_text calls that succeed before one raises
Answer ==
    /\ pc = "start"
    /\ \E target \in Targets : \E fs \in ScanFaults(target) : \E readOk \in BOOLEAN :
       \E given \in BOOLEAN : \E choice \in Choices : \E content \in Texts :
        LET a == [target |-> target, choice_given |-> given,
                  choice |-> IF given THEN choice ELSE 0, text |-> content]
            loc == SelectSession(target, env, screens, fs)
            question == ParsedScreen[screens[loc.session]]
            out == [NoOutcome EXCEPT !.op = "answer", !.session_id = loc.session]
        IN  /\ given \/ choice = 0
            /\ args' = a
            /\ fails' = fs
            /\ located' = loc
            /\ IF loc.raised THEN
                   /\ readOk
                   /\ asked' = None
                   /\ sent' = <<>>
                   /\ outcome' = [out EXCEPT !.kind = "uncaught"]
               ELSE IF loc.session = NoSession THEN
                   /\ readOk
                   /\ asked' = None
                   /\ sent' = <<>>
                   /\ outcome' = [out EXCEPT !.kind = "no_claude_session"]
               ELSE IF ~readOk THEN
                   /\ asked' = None
                   /\ sent' = <<>>
                   /\ outcome' = [out EXCEPT !.kind = "uncaught"]
               ELSE IF ~question.found THEN
                   /\ asked' = None
                   /\ sent' = <<>>
                   /\ outcome' = [out EXCEPT !.kind = "no_question"]
               ELSE
                   LET plan == AnswerPlan(question, a) IN
                   /\ asked' = question
                   /\ \E delivered \in 0..Len(plan.keys) :
                        /\ sent' = SubSeq(plan.keys, 1, delivered)
                        /\ outcome' = IF delivered = Len(plan.keys)
                                      THEN [out EXCEPT !.kind = plan.kind,
                                                       !.label = plan.label]
                                      ELSE [out EXCEPT !.kind = "uncaught"]
    /\ pc' = "done"
    /\ UNCHANGED <<pvars, env, screens, wvars, xvars, rvars>>

\* the body of the innermost for loop of watch_for_questions for session sid;
\* question is parse_multiple_choice(strip_ansi(screen text)) of that session,
\* fs the set of sessions whose read raises in this pass ("except Exception:
\* pass"); w carries seen_questions, the events printed, the sessions read and
\* whether the function returned
WatchSession(sid, own, question, fs, args_once, t, w) ==
    IF sid = own THEN w
    ELSE IF sid \in fs THEN [w EXCEPT !.read = Append(w.read, sid)]
    ELSE IF question.found /\ QuestionKey(sid, question) \notin w.seen
    THEN [seen |-> MarkSeen(w.seen, QuestionKey(sid, question)),
          emitted |-> Append(w.emitted,
                             [session_id |-> sid, question |-> question.question,
                              tick |-> t]),
          read |-> Append(w.read, sid),
          returned |-> ReturnAfterEmit(args_once)]
    ELSE [w EXCEPT !.read = Append(w.read, sid)]

\* the three nested for loops of watch_for_questions from position i of the
\* enumeration, left early by "return"; questions[sid] is what session sid's
\* screen parses to
RECURSIVE WatchFrom(_, _, _, _, _, _, _, _)
WatchFrom(order, i, own, questions, fs, args_once, t, w) ==
    IF i > Len(order) \/ w.returned THEN w
    ELSE WatchFrom(order, i + 1, own, questions, fs, args_once, t,
                   WatchSession(order[i], own, questions[order[i]], fs, args_once, t, w))

\* one pass of "while True" in watch_for_questions, then the sleep (or the
\* return under --once)
WatchPass ==
    /\ pc = "watch"
    /\ tick < MaxTicks
    /\ \E fs \in FaultSets(MaxFaults - faults) :
       \E questions \in {[sid \in SessionIds |-> ParsedScreen[screens[sid]]]} :
       \E own \in {OwnSessionId(env)} :
       \E w \in {WatchFrom(SessionOrder, 1, own, questions, fs, once, tick + 1,
                           [seen |-> seen, emitted |-> emitted, read |-> <<>>,
                            returned |-> FALSE])} :
       \E raised \in {{sid \in fs : \E k \in 1..Len(w.read) : w.read[k] = sid}} :
            /\ fails' = raised
            /\ faults' = faults + Cardinality(raised)
            /\ seen' = w.seen
            /\ emitted' = w.emitted
            /\ wread' = w.read
            /\ pc' = IF w.returned THEN "returned" ELSE "watch"
    /\ tick' = tick + 1
    /\ UNCHANGED <<pvars, env, screens, cvars, once, changes, xvars, rvars>>

\* a watched program redraws its screen while the loop sleeps
ScreenChange ==
    /\ pc = "watch"
    /\ tick >= 1
    /\ tick < MaxTicks
    /\ changes < MaxChanges
    /\ \E sid \in SessionIds : \E scr \in WatchScreens :
        /\ scr # screens[sid]
        /\ screens' = [screens EXCEPT ![sid] = scr]
    /\ changes' = changes + 1
    /\ UNCHANGED <<pvars, pc, env, fails, cvars, once, tick, seen, emitted, wread, faults,
                 xvars, rvars>>

Next ==
    \/ Detect
    \/ Answer
    \/ WatchPass
    \/ ScreenChange

Spec == Init /\ [][Next]_vars

\* ------------------------------------------------- run_codex_resume runs
\* Time is counted in whole seconds and one pass of the loop is taken to
\* last one second. The child writes its bytes in pieces of any size and may
\* exit at any moment; each read returns what is pending, up to READ_SIZE.
WrapperInit ==
    /\ text = <<>>
    /\ built = NotBuilt
    /\ ppc = "off"
    /\ result = None
    /\ pc = "off"
    /\ env = <<>>
    /\ screens = <<>>
    /\ once = FALSE
    /\ CommandIdle
    /\ WatchIdle
    /\ RunnerIdle
    /\ wrap_pc = "loop"
    /\ \/ timeout = ShortTimeout /\ script \in QueryScripts
       \/ timeout = IDLE_LIMIT + Slack /\ script \in PlainScripts
    /\ now = 0
    /\ last_output = 0
    /\ child = "running"
    /\ pty = <<>>
    /\ output = <<>>
    /\ replies = <<>>
    /\ master_open = TRUE
    /\ polled = "none"
    /\ signals = <<>>
    /\ left_by = "none"

\* the child writes the next bytes of its output to the slave
ChildWrite ==
    /\ wrap_pc = "loop"
    /\ child = "running"
    /\ script # <<>>
    /\ \E k \in 1..Len(script) :
        /\ pty' = pty \o SubSeq(script, 1, k)
        /\ script' = SubSeq(script, k + 1, Len(script))
    /\ UNCHANGED <<pvars, pc, env, screens, fails, cvars, wvars, rvars, wrap_pc, timeout, now,
                   last_output, child, output, replies, master_open, polled, signals,
                   left_by>>

\* the child exits of its own accord
ChildExit ==
    /\ wrap_pc \in {"loop", "cleanup"}
    /\ child = "running"
    /\ child' = "exited"
    /\ UNCHANGED <<pvars, pc, env, screens, fails, cvars, wvars, rvars, wrap_pc, timeout, now,
                   last_output, script, pty, output, replies, master_open, polled,
                   signals, left_by>>

\* one pass of the while loop: the loop test, select, the read and the
\* replies, the poll with its drain loop, the idle test.
\* hangup: the slave is closed and nothing is pending, select still reports
\* the master readable and the read returns b'' or raises, as the platform has it.
\* fault: "read" when os.read raises OSError, "write" when an os.write does.
ReadPass ==
    /\ wrap_pc = "loop"
    /\ IF ~LoopRuns(now, timeout) THEN
           /\ wrap_pc' = "cleanup"
           /\ left_by' = "timeout"
           /\ UNCHANGED <<now, last_output, pty, output, replies>>
       ELSE
           \E hangup \in BOOLEAN : \E fault \in {"none", "read", "write"} :
           LET r == pty # <<>> \/ hangup
               data == IF r /\ fault # "read"
                       THEN SubSeq(pty, 1, Min(Len(pty), READ_SIZE)) ELSE <<>>
               rest == SubSeq(pty, Len(data) + 1, Len(pty))
               wrote == QueryReplies(data)
               read_at == IF data # <<>> THEN now ELSE last_output
           IN  /\ hangup => (child = "exited" /\ pty = <<>>)
               /\ fault # "none" => r
               /\ fault = "write" => wrote # <<>>
               /\ output' = IF fault = "none" /\ child = "exited"
                            THEN output \o data \o rest ELSE output \o data
               /\ pty' = IF fault = "none" /\ child = "exited" THEN <<>> ELSE rest
               /\ last_output' = read_at
               /\ IF fault = "write"
                  THEN \E done \in 0..(Len(wrote) - 1) :
                           replies' = replies \o SubSeq(wrote, 1, done)
                  ELSE replies' = replies \o wrote
               /\ IF fault # "none" THEN
                      /\ wrap_pc' = "cleanup"
                      /\ left_by' = "read_error"
                      /\ now' = now
                  ELSE IF child = "exited" THEN
                      /\ wrap_pc' = "cleanup"
                      /\ left_by' = "child_exit"
                      /\ now' = now
                  ELSE IF IdleTooLong(now, read_at) THEN
                      /\ wrap_pc' = "cleanup"
                      /\ left_by' = "idle"
                      /\ now' = now
                  ELSE
                      /\ wrap_pc' = "loop"
                      /\ left_by' = left_by
                      /\ now' = now + 1
    /\ UNCHANGED <<pvars, pc, env, screens, fails, cvars, wvars, rvars, timeout, child, script,
                   master_open, polled, signals>>

\* after the loop: os.close(master), then terminate / wait 5 s / kill when
\* p.poll() is None; the function returns
Cleanup ==
    /\ wrap_pc = "cleanup"
    /\ master_open' = FALSE
    /\ polled' = child
    /\ \E exited_in_wait \in BOOLEAN :
        /\ child = "exited" => exited_in_wait
        /\ signals' = CleanupSignals(child = "running", exited_in_wait)
        /\ child' = IF exited_in_wait THEN "exited" ELSE child
    /\ wrap_pc' = "returned"
    /\ UNCHANGED <<pvars, pc, env, screens, fails, cvars, wvars, rvars, timeout, now, last_output,
                   script, pty, output, replies, left_by>>

WrapperNext ==
    \/ ChildWrite
    \/ ChildExit
    \/ ReadPass
    \/ Cleanup

\* the wrapper is a running process: its loop and its cleanup keep being
\* scheduled (select waits 0.5 s at most)
WrapperSpec ==
    WrapperInit /\ [][WrapperNext]_vars /\ WF_vars(ReadPass) /\ WF_vars(Cleanup)

\* ------------------------------------------------------ parser claims
HasGlyph(lines) ==
    \E i \in 1..Len(lines) : Contains(lines[i], BOX) \/ Contains(lines[i], CHECKED)

\* a header and a body are found and no line after the body is an option line
HeaderBodyNoOptions(lines) ==
    LET h == FindHeader(lines, 0)
        q == FindQuestion(lines, h.header_idx + 1,
                          Min(h.header_idx + LOOKAHEAD, Len(lines)))
    IN  /\ h.header_idx # -1
        /\ q.question # <<>>
        /\ \A i \in (q.question_idx + 1)..(Len(lines) - 1) :
              ~OptionMatch(Line(lines, i)).matched

\* C5: every Question parse_multiple_choice returns has at least one option
\* and 0 <= selected_index < len(options); a text with a header and a body
\* but no option line parses to None.
C5_QuestionInvariant ==
    ppc = "parsed" =>
        /\ result.found =>
              /\ Len(result.options) >= 1
              /\ 0 <= result.selected_index
              /\ result.selected_index < Len(result.options)
        /\ HeaderBodyNoOptions(text) => result = None

C5_Witness ==
    /\ ppc = "parsed"
    /\ result.found
    /\ Len(result.options) >= 2
    /\ result.selected_index = Len(result.options) - 1

\* C6: a text in which no line holds a checkbox glyph (U+2610 or U+2611)
\* parses to None.
C6_NoGlyphNotFound ==
    (ppc = "parsed" /\ ~HasGlyph(text)) => result = None

C6_Witness ==
    /\ ppc = "parsed"
    /\ ~HasGlyph(text)
    /\ result = None
    /\ Len(text) >= 3
    /\ text[2] = BodyLine
    /\ OptionMatch(text[3]).matched

\* C7: a screen built in the documented format with n options and the
\* selector marker on exactly the option at position k parses to a Question
\* with len(options) = n and selected_index = k.
C7_ConventionScreen ==
    (ppc = "parsed" /\ built.conv) =>
        /\ result.found
        /\ Len(result.options) = built.n
        /\ result.selected_index = built.k

C7_Witness ==
    /\ ppc = "parsed"
    /\ built.conv
    /\ built.n >= 2
    /\ built.k >= 1
    /\ result.found
    /\ result.selected_index = built.k
    /\ \E j \in 1..Len(result.options) : result.options[j].description # <<>>


\* ----------------------------------------------------- send_answer claims
RECURSIVE Count(_, _)
Count(seq, x) ==
    IF seq = <<>> THEN 0
    ELSE (IF Head(seq) = x THEN 1 ELSE 0) + Count(Tail(seq), x)

NetMoves(keys) == Count(keys, DownKey) - Count(keys, UpKey)
OnlyArrows(keys) == \A i \in 1..Len(keys) : keys[i] \in {DownKey, UpKey}
OneDirection(keys) == Count(keys, DownKey) = 0 \/ Count(keys, UpKey) = 0
Max(a, b) == IF a > b THEN a ELSE b

\* send_answer parsed a question
Answered == pc = "done" /\ outcome.op = "answer" /\ asked.found

\* an option index inside the range was requested and no text
ValidChoiceCase ==
    /\ Answered
    /\ args.text = <<>>
    /\ args.choice_given
    /\ args.choice - 1 >= 0
    /\ args.choice - 1 < Len(asked.options)

\* C1: for a question with N options and a requested index t in [0, N)
\* (choice t + 1), send_answer sends only arrow keys and then one Enter: the
\* arrows all go one way, downs minus ups equals t - selected_index, and the
\* single Enter is the last key. A send that raises ends the sequence early:
\* then only arrows of that run were sent and no Enter.
C1_ChoiceKeys ==
    ValidChoiceCase =>
        LET d == (args.choice - 1) - asked.selected_index
            arrows == IF sent # <<>> /\ sent[Len(sent)] = Enter
                      THEN SubSeq(sent, 1, Len(sent) - 1) ELSE sent
        IN  /\ OnlyArrows(arrows)
            /\ OneDirection(arrows)
            /\ Count(arrows, DownKey) <= Max(d, 0)
            /\ Count(arrows, UpKey) <= Max(0 - d, 0)
            /\ outcome.kind \in {"selected_option", "uncaught"}
            /\ outcome.kind = "selected_option" =>
                  /\ NetMoves(arrows) = d
                  /\ Count(sent, Enter) = 1
                  /\ sent[Len(sent)] = Enter
            /\ outcome.kind = "uncaught" => Count(sent, Enter) = 0

C1_Witness ==
    /\ ValidChoiceCase
    /\ outcome.kind = "selected_option"
    /\ asked.selected_index = 2
    /\ args.choice = 1
    /\ sent = <<UpKey, UpKey, Enter>>

\* C2: when a question is parsed and the requested index is outside
\* [0, len(options)) (choice <= 0 or choice > len(options)), and no text is
\* given, send_answer returns invalid_choice and sends nothing.
C2_InvalidChoice ==
    (/\ Answered
     /\ args.text = <<>>
     /\ args.choice_given
     /\ (args.choice - 1 < 0 \/ args.choice - 1 >= Len(asked.options)))
    => (outcome.kind = "invalid_choice" /\ sent = <<>>)

C2_Witness ==
    /\ Answered
    /\ args.text = <<>>
    /\ args.choice_given
    /\ args.choice - 1 = Len(asked.options)
    /\ outcome.kind = "invalid_choice"

\* index of the first "Type something" option of the parsed question
IsFirstTextOption(f) ==
    /\ f \in 0..(Len(asked.options) - 1)
    /\ asked.options[f + 1].is_text_input
    /\ \A g \in 0..(f - 1) : ~asked.options[g + 1].is_text_input

\* a free-text answer was typed in full on a question with a text option
FreeTextCase ==
    /\ Answered
    /\ args.text # <<>>
    /\ asked.has_text_option
    /\ outcome.kind = "typed_text"

\* sent is moves with the given net count followed by the given tail
MovesThen(net, tail) ==
    LET m == Len(sent) - Len(tail) IN
    /\ m >= 0
    /\ OnlyArrows(SubSeq(sent, 1, m))
    /\ OneDirection(SubSeq(sent, 1, m))
    /\ NetMoves(SubSeq(sent, 1, m)) = net
    /\ SubSeq(sent, m + 1, Len(sent)) = tail

\* C3 as stated: moves to the text option, then Confirm, Confirm, the text,
\* Confirm.
C3_Original ==
    FreeTextCase =>
        \E f \in 0..(Len(asked.options) - 1) :
            /\ asked.options[f + 1].is_text_input
            /\ MovesThen(f - asked.selected_index, <<Enter, Enter, args.text, Enter>>)

\* C3 (amended): for a free-text answer on a question whose first free-text
\* option is at index f, the inputs sent are moves whose net count is
\* f - selected_index, then one Confirm, then the text, then Confirm; for the
\* reference screen that is Down, Down, Enter, text, Enter.
C3_FreeTextKeys ==
    FreeTextCase =>
        /\ \E f \in 0..(Len(asked.options) - 1) :
              /\ IsFirstTextOption(f)
              /\ MovesThen(f - asked.selected_index, <<Enter, args.text, Enter>>)
        /\ screens[outcome.session_id] = RefScreen =>
              sent = <<DownKey, DownKey, Enter, args.text, Enter>>

C3_Witness ==
    /\ FreeTextCase
    /\ screens[outcome.session_id] = RefScreen
    /\ asked.selected_index = 0
    /\ IsFirstTextOption(2)
    /\ sent = <<DownKey, DownKey, Enter, args.text, Enter>>

\* C4: for a free-text answer on a question without a "Type something"
\* option, send_answer sends no arrow key and sends Enter, the text, Enter in
\* that order, and returns typed_text; a send that raises leaves a proper
\* prefix of that sequence.
C4_FreeTextFallback ==
    (Answered /\ args.text # <<>> /\ ~asked.has_text_option) =>
        LET full == <<Enter, args.text, Enter>> IN
        /\ Count(sent, DownKey) = 0
        /\ Count(sent, UpKey) = 0
        /\ outcome.kind \in {"typed_text", "uncaught"}
        /\ outcome.kind = "typed_text" => sent = full
        /\ outcome.kind = "uncaught" =>
              Len(sent) < Len(full) /\ sent = SubSeq(full, 1, Len(sent))

C4_Witness ==
    /\ Answered
    /\ args.text # <<>>
    /\ ~asked.has_text_option
    /\ asked.selected_index = 1
    /\ outcome.kind = "typed_text"
    /\ sent = <<Enter, args.text, Enter>>

\* ------------------------------------------------------ watch loop claims
IndexIn(seq, x) == CHOOSE i \in 1..Len(seq) : seq[i] = x
InSeq(seq, x) == \E i \in 1..Len(seq) : seq[i] = x
IsOther(sid) == sid # OwnSessionId(env)

\* the sessions a complete scan reads: every session but the caller's own
NonOwn == SelectSeq(SessionOrder, IsOther)

\* the sessions a scan reads when it stops at session last
ReadUpTo(last) ==
    IF InSeq(NonOwn, last) THEN SubSeq(NonOwn, 1, IndexIn(NonOwn, last)) ELSE NonOwn

\* C8: in one run of the watch loop a question with a given session id and
\* body is emitted at most once, over any number of passes.
C8_EmittedOnce ==
    \A i, j \in 1..Len(emitted) :
        (/\ emitted[i].session_id = emitted[j].session_id
         /\ emitted[i].question = emitted[j].question) => i = j

\* a session shows, in the last pass, the question it was reported for in the
\* first pass, and the event is still the only one
C8_Witness ==
    /\ pc = "watch"
    /\ tick = MaxTicks
    /\ \E sid \in SessionIds :
        /\ InSeq(wread, sid)
        /\ sid \notin fails
        /\ ParsedScreen[screens[sid]].found
        /\ emitted = <<[session_id |-> sid,
                        question |-> ParsedScreen[screens[sid]].question,
                        tick |-> 1]>>

\* C9: the watch loop returns only when --once is set and an event has just
\* been emitted, and then at once, so that such a run emits exactly one event;
\* without --once, or before any emission, it does not return.
C9_ReturnOnlyOnce ==
    /\ pc = "returned" => (once /\ Len(emitted) = 1)
    /\ (once /\ Len(emitted) >= 1) => pc = "returned"
    /\ (tick >= 1 /\ (~once \/ Len(emitted) = 0)) => pc = "watch"

\* the loop returned in a later pass although a later session also shows an
\* unreported question
C9_Witness ==
    /\ pc = "returned"
    /\ tick >= 2
    /\ Len(emitted) = 1
    /\ \E sid \in SessionIds :
        /\ IsOther(sid)
        /\ ~InSeq(wread, sid)
        /\ ParsedScreen[screens[sid]].found

\* C10: a read that raises only skips that session. In find_claude_session
\* the scan raises nothing and reads every non-excluded session up to the one
\* it returns (all of them when it returns None), also after a failed read;
\* in the watch loop every pass reads every non-excluded session (up to the
\* emitting one when it returns under --once) and the loop goes on.
C10_FailureSkipsSession ==
    /\ (pc = "done" /\ args.target = <<>>) =>
          /\ ~located.raised
          /\ located.examined = ReadUpTo(located.session)
          /\ located.session # NoSession => located.session \notin fails
    /\ (pc = "watch" /\ tick >= 1) => wread = NonOwn
    /\ pc = "returned" => wread = ReadUpTo(emitted[Len(emitted)].session_id)
    /\ (tick >= 1 /\ fails # {} /\ Len(emitted) = 0) => pc = "watch"

\* the first session read raised and a later one was returned
C10_Witness ==
    /\ pc = "done"
    /\ args.target = <<>>
    /\ located.session # NoSession
    /\ Len(located.examined) >= 2
    /\ located.examined[1] \in fails

\* ------------------------------------- parser claims, step by step
\* Lines are numbered from 0 as in the source.
MinOf(S) == CHOOSE x \in S : \A y \in S : x <= y
MaxOf(S) == CHOOSE x \in S : \A y \in S : x >= y

\* positions of the checkbox glyphs of a line
GlyphAt(line) == {p \in 1..Len(line) : line[p] \in {BOX, CHECKED}}

\* the lines that hold a checkbox glyph
GlyphLines(lines) == {i \in 0..(Len(lines) - 1) : GlyphAt(Line(lines, i)) # {}}

\* the lines that hold a checkbox glyph with at least one character after it
AnchorLines(lines) ==
    {i \in 0..(Len(lines) - 1) :
        \E p \in GlyphAt(Line(lines, i)) : p < Len(Line(lines, i))}

\* the trimmed remainder of a line after its leftmost checkbox glyph
AfterFirstGlyph(line) == Strip(SubSeq(line, MinOf(GlyphAt(line)) + 1, Len(line)))

\* selector glyphs or white space, then an integer, then '.'
StartsLikeOption(line) ==
    \E a \in 0..Len(line) : \E d \in 1..Len(line) :
        /\ a + d + 1 <= Len(line)
        /\ \A k \in 1..a : line[k] \in {SELECTOR, GT} \cup Whitespace
        /\ \A k \in (a + 1)..(a + d) : line[k] \in Digits
        /\ line[a + d + 1] = DOT

\* the non-blank lines among the 9 lines after line h that do not start with
\* "Enter to select"
BodyCandidates(lines, h) ==
    {i \in (h + 1)..Min(h + 9, Len(lines) - 1) :
        /\ Strip(Line(lines, i)) # <<>>
        /\ Strip(Line(lines, i))[1] # ENTER_TO_SELECT}

\* the body line for header line h, -1 when there is none
ExpectedBodyIdx(lines, h) ==
    IF BodyCandidates(lines, h) = {} THEN -1
    ELSE LET c == MinOf(BodyCandidates(lines, h)) IN
         IF StartsLikeOption(Strip(Line(lines, c))) THEN -1 ELSE c

IsFooterLine(line) == \E j \in 1..Len(line) : line[j] \in {ENTER_TO_SELECT, TAB_ARROW}

\* the first footer line after line c, len(lines) when there is none
FooterIdx(lines, c) ==
    LET fs == {i \in (c + 1)..(Len(lines) - 1) : IsFooterLine(Line(lines, i))} IN
    IF fs = {} THEN Len(lines) ELSE MinOf(fs)

\* white space with at most one selector glyph, an integer, '.', and at least
\* one more character
IsOptionLine(line) ==
    \E a \in 0..Len(line) : \E d \in 1..Len(line) :
        /\ a + d + 1 < Len(line)
        /\ \A k \in 1..a : line[k] \in {SELECTOR, GT} \cup Whitespace
        /\ Cardinality({k \in 1..a : line[k] \in {SELECTOR, GT}}) <= 1
        /\ \A k \in (a + 1)..(a + d) : line[k] \in Digits
        /\ line[a + d + 1] = DOT

\* the option lines among lines from..to-1, in order
RECURSIVE OptionLinesIn(_, _, _)
OptionLinesIn(lines, from, to) ==
    IF from >= to THEN <<>>
    ELSE (IF IsOptionLine(Line(lines, from)) THEN <<from>> ELSE <<>>)
         \o OptionLinesIn(lines, from + 1, to)

\* for body line c (-1: none): where the option step ends (the footer or the
\* end of the text) and the option lines before that, in order
LayoutFrom(lines, c) ==
    IF c = -1 THEN [body |-> -1, end |-> -1, at |-> <<>>]
    ELSE LET f == FooterIdx(lines, c) IN
         [body |-> c, end |-> f, at |-> OptionLinesIn(lines, c + 1, f)]

\* the layout of a text: header line h is the first line with a glyph and a
\* character after it
Layout(lines) ==
    IF AnchorLines(lines) = {} THEN LayoutFrom(lines, -1)
    ELSE LayoutFrom(lines, ExpectedBodyIdx(lines, MinOf(AnchorLines(lines))))

\* the first non-blank line of the window that is not an option line, -1
\* when there is none
FirstNonOptionIdx(lines, h) ==
    LET cands == {i \in (h + 1)..Min(h + 9, Len(lines) - 1) :
                     /\ Strip(Line(lines, i)) # <<>>
                     /\ ~StartsLikeOption(Strip(Line(lines, i)))}
    IN  IF cands = {} THEN -1 ELSE MinOf(cands)

\* C14 as stated: the body is the first non-blank line of the window that is
\* not an option line, and the parse fails at this step only when the window
\* holds no such line.
C14_Original ==
    (ppc = "parsed" /\ AnchorLines(text) # {}) =>
        LET lay == LayoutFrom(text, FirstNonOptionIdx(text, MinOf(AnchorLines(text)))) IN
        /\ lay.body = -1 => result = None
        /\ (lay.body # -1 /\ result.found) =>
              result.question = Strip(Line(text, lay.body))
        /\ (lay.body # -1 /\ lay.at # <<>>) => result.found

\* C14 (amended): the first non-blank line among the 9 lines after the
\* header that does not start with "Enter to select" decides: if it is an
\* option line, or there is no such line, the parse returns None; otherwise
\* its trimmed text is the body.
C14_QuestionBody ==
    (ppc = "parsed" /\ AnchorLines(text) # {}) =>
        LET lay == Layout(text) IN
        /\ lay.body = -1 => result = None
        /\ (lay.body # -1 /\ result.found) =>
              result.question = Strip(Line(text, lay.body))
        /\ (lay.body # -1 /\ lay.at # <<>>) => result.found

\* the body is the ninth line after the header, behind eight filler lines
C14_Witness ==
    /\ ppc = "parsed"
    /\ result.found
    /\ result.question = BodyLine
    /\ \E h \in 1..Len(text) :
          /\ h + 9 <= Len(text)
          /\ text[h] = HeaderLine
          /\ \A i \in 1..8 : Strip(text[h + i]) = <<>>
          /\ text[h + 9] = BodyLine

\* C15 as stated: the anchor is the first line holding a checkbox glyph, the
\* header the remainder of that line, and the parse goes on from that line
\* whenever some line holds a glyph.
C15_Original ==
    (ppc = "parsed" /\ GlyphLines(text) # {}) =>
        LET g == MinOf(GlyphLines(text))
            lay == LayoutFrom(text, ExpectedBodyIdx(text, g))
        IN  /\ result.found => result.header = AfterFirstGlyph(Line(text, g))
            /\ result.found <=> lay.at # <<>>

\* C15 (amended): the anchor is the first line holding a checkbox glyph
\* (U+2610 or U+2611) that has at least one character after it; the header is
\* the trimmed remainder of that line after its leftmost glyph, and the parse
\* goes on from that line. When no line qualifies the parse returns None.
C15_HeaderAnchor ==
    ppc = "parsed" =>
        LET lay == Layout(text) IN
        /\ AnchorLines(text) = {} => result = None
        /\ result.found =>
              result.header = AfterFirstGlyph(Line(text, MinOf(AnchorLines(text))))
        /\ result.found <=> lay.at # <<>>

\* a line holding only a glyph comes first and the next line is the anchor
C15_Witness ==
    /\ ppc = "parsed"
    /\ result.found
    /\ Len(text) >= 2
    /\ text[1] = <<CHECKED>>
    /\ text[2] = HeaderLine
    /\ result.header = <<"H">>

\* the trimmed text after the '.' that ends the number of an option line
OptionLabel(line) ==
    Strip(SubSeq(line, MinOf({k \in 1..Len(line) : line[k] = DOT}) + 1, Len(line)))

\* the trimmed texts of the non-blank lines from..to-1, joined by one space
RECURSIVE JoinDesc(_, _, _)
JoinDesc(lines, from, to) ==
    IF from >= to THEN <<>>
    ELSE LET d == Strip(Line(lines, from))
             rest == JoinDesc(lines, from + 1, to)
         IN  IF d = <<>> THEN rest
             ELSE IF rest = <<>> THEN d
             ELSE d \o <<SP>> \o rest

\* C16: when a line after the body holds "Enter to select" or "Tab/Arrow",
\* the options returned are exactly the option lines between the body and the
\* first such line; the last of them is included, with the description lines
\* found before the footer, and with no option line before the footer the
\* parse returns None whatever follows the footer.
C16_FooterStops ==
    ppc = "parsed" =>
        LET lay == Layout(text)
            n == Len(lay.at)
        IN  (lay.body # -1 /\ lay.end < Len(text)) =>
                /\ n = 0 => result = None
                /\ n # 0 =>
                      /\ result.found
                      /\ Len(result.options) = n
                      /\ result.options[n].label = OptionLabel(Line(text, lay.at[n]))
                      /\ result.options[n].description =
                            JoinDesc(text, lay.at[n] + 1, lay.end)

\* a described option, the footer, then one more option line
C16_Witness ==
    /\ ppc = "parsed"
    /\ result.found
    /\ Len(result.options) = 1
    /\ result.options[1].description = <<"d">>
    /\ Len(text) >= 3
    /\ IsFooterLine(text[Len(text) - 1])
    /\ ~Contains(text[Len(text) - 1], ENTER_TO_SELECT)
    /\ IsOptionLine(text[Len(text)])

\* C17: the description of every parsed option is the trimmed texts of the
\* non-blank lines between its option line and the next option line (or the
\* footer, or the end of the text), joined by single spaces in order; it is
\* empty when there are none.
C17_Descriptions ==
    (ppc = "parsed" /\ result.found) =>
        LET lay == Layout(text) IN
        /\ Len(result.options) = Len(lay.at)
        /\ \A j \in 1..Len(result.options) :
              result.options[j].description =
                  JoinDesc(text, lay.at[j] + 1,
                           IF j < Len(lay.at) THEN lay.at[j + 1] ELSE lay.end)

\* two description lines with a blank line between them under one option
C17_Witness ==
    /\ ppc = "parsed"
    /\ result.found
    /\ \E j \in 1..Len(result.options) :
          result.options[j].description = <<"d", SP, "e">>
    /\ \E i \in 2..(Len(text) - 1) :
          /\ text[i - 1] = DescLine
          /\ Strip(text[i]) = <<>>
          /\ Strip(text[i + 1]) = <<"e">>

\* a selector glyph stands before the first digit of the line
MarkedLine(line) ==
    \E k \in 1..Len(line) :
        line[k] \in {SELECTOR, GT} /\ \A j \in 1..k : line[j] \notin Digits

\* C20: in every Question returned, is_selected of an option is true iff
\* its line has the selector marker before its number; when some option is
\* marked, selected_index is the position of the last marked option, and
\* when none is marked it is 0.
C20_SelectionAgrees ==
    (ppc = "parsed" /\ result.found) =>
        LET lay == Layout(text)
            marked == {j \in 1..Len(result.options) : result.options[j].is_selected}
        IN  /\ Len(result.options) = Len(lay.at)
            /\ \A j \in 1..Len(result.options) :
                  result.options[j].is_selected <=> MarkedLine(Line(text, lay.at[j]))
            /\ marked # {} =>
                  /\ result.selected_index = MaxOf(marked) - 1
                  /\ result.options[result.selected_index + 1].is_selected
            /\ marked = {} => result.selected_index = 0

\* the first two of three options are marked
C20_Witness ==
    /\ ppc = "parsed"
    /\ result.found
    /\ Len(result.options) = 3
    /\ result.options[1].is_selected
    /\ result.options[2].is_selected
    /\ ~result.options[3].is_selected
    /\ result.selected_index = 1

\* ------------------------------------------------------ locator claims
\* the text holds the selector glyph U+276F or the unchecked box U+2610
ShowsGlyph(lines) ==
    \E i \in 1..Len(lines) : \E j \in 1..Len(lines[i]) : lines[i][j] \in {SELECTOR, BOX}

\* window order, then tab order, then session order
ExpectedOrder == <<SessA, SessB, SessC>>

\* session sid is not the caller's, its screen was read and shows a glyph
Matching(sid) == IsOther(sid) /\ sid \notin fails /\ ShowsGlyph(screens[sid])

\* C11: find_claude_session returns the first session, in enumeration order,
\* among the sessions that are not the caller's, whose read did not raise and
\* whose screen holds the selector glyph U+276F or the unchecked box U+2610;
\* it returns None exactly when there is no such session.
C11_FirstMatch ==
    (pc = "done" /\ args.target = <<>>) =>
        /\ located.session = NoSession <=>
              ~\E i \in 1..Len(ExpectedOrder) : Matching(ExpectedOrder[i])
        /\ located.session # NoSession =>
              \E i \in 1..Len(ExpectedOrder) :
                  /\ ExpectedOrder[i] = located.session
                  /\ Matching(ExpectedOrder[i])
                  /\ \A j \in 1..(i - 1) : ~Matching(ExpectedOrder[j])

\* the caller's own session and an unreadable one both show a prompt ahead
\* of the session returned, and a later session matches as well
C11_Witness ==
    /\ pc = "done"
    /\ args.target = <<>>
    /\ OwnSessionId(env) = SessA
    /\ ShowsGlyph(screens[SessA])
    /\ fails = {SessB}
    /\ ShowsGlyph(screens[SessB])
    /\ ShowsGlyph(screens[SessC])
    /\ located.session = SessC

\* C12: the session whose id is the part of ITERM_SESSION_ID after the first
\* ':' is never read or returned by find_claude_session and no watch event
\* carries its id, whatever its screen shows.
C12_OwnSessionExcluded ==
    /\ (pc = "done" /\ args.target = <<>>) =>
          /\ located.session # OwnSessionId(env)
          /\ ~InSeq(located.examined, OwnSessionId(env))
    /\ \A i \in 1..Len(emitted) : emitted[i].session_id # OwnSessionId(env)
    /\ ~InSeq(wread, OwnSessionId(env))

\* only the caller's own session shows a prompt, a parseable one, and the
\* locator returned None
C12_Witness ==
    /\ pc = "done"
    /\ args.target = <<>>
    /\ OwnSessionId(env) \in SessionIds
    /\ ParsedScreen[screens[OwnSessionId(env)]].found
    /\ ShowsGlyph(screens[OwnSessionId(env)])
    /\ located.session = NoSession
    /\ Len(located.examined) = 2

\* ------------------------------------------------ detect / answer claims
\* C13: detect_question and send_answer always end by returning a result
\* dictionary; a failure while reading the selected session's screen or while
\* sending keys to it never leaves them as an exception.
C13_StructuredOutcome ==
    pc = "done" => outcome.kind # "uncaught"

\* the option lines of the prompt the answered session shows, in order
AnsweredLayout == Layout(strip_ansi(screens[outcome.session_id]))

\* the list position (from 0) of the last option line that carries the
\* marker, 0 when none does
MarkedPosition(lines, at) ==
    LET marked == {j \in 1..Len(at) : MarkedLine(Line(lines, at[j]))} IN
    IF marked = {} THEN 0 ELSE MaxOf(marked) - 1

\* C18: selected_index is the list position of the marked option line, and
\* answering with choice c sends the arrows from that position to list
\* position c - 1 and reports the label of the option line at list position
\* c - 1, whatever numbers the option lines display.
C18_ListPosition ==
    (ValidChoiceCase /\ outcome.kind = "selected_option") =>
        LET lines == strip_ansi(screens[outcome.session_id])
            lay == AnsweredLayout
            m == MarkedPosition(lines, lay.at)
        IN  /\ Len(asked.options) = Len(lay.at)
            /\ asked.selected_index = m
            /\ NetMoves(sent) = (args.choice - 1) - m
            /\ outcome.label = OptionLabel(Line(lines, lay.at[args.choice]))

\* choice 1 on the prompt whose options are numbered 3 and 1, the second one
\* marked: one Up, Enter, and the label of the option numbered 3
C18_Witness ==
    /\ ValidChoiceCase
    /\ outcome.kind = "selected_option"
    /\ screens[outcome.session_id] = OrdinalScreen
    /\ asked.options[1].number = 3
    /\ asked.options[2].number = 1
    /\ args.choice = 1
    /\ sent = <<UpKey, Enter>>
    /\ outcome.label = <<"A">>

\* ------------------------------------------------ watch loop claims, 2
\* an event for session sid and question text body is among events i..j
EmittedIn(events, i, j, sid, body) ==
    \E k \in i..j : events[k].session_id = sid /\ events[k].question = body

\* C19: without --once, every pass of the watch loop reads every session but
\* the caller's own, and every question parsed from a session that was read
\* without error is emitted in that pass unless an event with the same
\* session id and question text was emitted in an earlier pass.
C19_EveryNewQuestionEmitted ==
    [][(pc = "watch" /\ ~once /\ tick' = tick + 1) =>
          /\ wread' = NonOwn
          /\ pc' = "watch"
          /\ \A sid \in SessionIds :
                (/\ IsOther(sid)
                 /\ sid \notin fails'
                 /\ ParsedScreen[screens[sid]].found) =>
                    \/ EmittedIn(emitted, 1, Len(emitted), sid,
                                 ParsedScreen[screens[sid]].question)
                    \/ /\ EmittedIn(emitted', Len(emitted) + 1, Len(emitted'), sid,
                                    ParsedScreen[screens[sid]].question)
                       /\ \A k \in (Len(emitted) + 1)..Len(emitted') :
                             emitted'[k].tick = tick']_vars

\* two sessions were reported in one pass for the same question text, and
\* one of them again in a later pass for another text
C19_Witness ==
    /\ pc = "watch"
    /\ ~once
    /\ \E i, j, k \in 1..Len(emitted) :
          /\ emitted[i].tick = emitted[j].tick
          /\ emitted[i].question = emitted[j].question
          /\ emitted[i].session_id # emitted[j].session_id
          /\ emitted[k].tick > emitted[i].tick
          /\ emitted[k].session_id = emitted[i].session_id
          /\ emitted[k].question # emitted[i].question

\* ------------------------------------------------ detect / answer claims, 2
ErrorKinds == {"no_claude_session", "no_question", "invalid_choice", "no_action"}

\* C21: whenever send_answer returns one of the error results
\* no_claude_session, no_question, invalid_choice or no_action, it has called
\* async_send_text on no session.
C21_ErrorSendsNothing ==
    (pc = "done" /\ outcome.op = "answer" /\ outcome.kind \in ErrorKinds) => sent = <<>>

\* neither a choice nor a text on a prompt whose marker is not on the first
\* option: no_action, nothing sent
C21_Witness ==
    /\ pc = "done"
    /\ outcome.op = "answer"
    /\ outcome.kind = "no_action"
    /\ asked.found
    /\ asked.selected_index # 0
    /\ sent = <<>>

\* exactly one session other than the caller's shows a text that parses to a
\* Question and no other such session passes the indicator test
OnePromptOnly ==
    \E sid \in SessionIds :
        /\ IsOther(sid)
        /\ ParsedScreen[screens[sid]].found
        /\ \A other \in SessionIds \ {sid} :
              IsOther(other) =>
                  /\ ~ParsedScreen[screens[other]].found
                  /\ ~HasIndicator(screens[other])

\* C22: every screen text that parses to a Question passes the indicator
\* test of find_claude_session, so that detect without a target session
\* reports found whenever exactly one session other than the caller's shows
\* a parseable question and no other session passes the test (all reads
\* succeeding).
C22_PrefilterAccepts ==
    (/\ pc = "done"
     /\ outcome.op = "detect"
     /\ args.target = <<>>
     /\ fails = {}
     /\ outcome.kind # "uncaught"
     /\ OnePromptOnly) =>
        outcome.kind = "found"

\* ---------------------------------------------------- iterm_runner runs
\* Time is counted in whole seconds and one pass of the polling loop is taken
\* to last one second (the sleep of 0.5 s and the screen request).
RunnerInit ==
    /\ text = <<>>
    /\ built = NotBuilt
    /\ ppc = "off"
    /\ result = None
    /\ pc = "off"
    /\ env = <<>>
    /\ screens = <<>>
    /\ once = FALSE
    /\ CommandIdle
    /\ WatchIdle
    /\ WrapperIdle
    /\ run_pc = "poll"
    /\ elapsed = 0
    /\ term = "sent"
    /\ cmd_out \in CommandOutputs
    /\ printed = 0
    /\ captured = <<>>

\* the terminal shows the line that async_send_text typed
EchoTyped ==
    /\ run_pc = "poll"
    /\ term = "sent"
    /\ term' = "echoed"
    /\ UNCHANGED <<pvars, pc, env, screens, fails, cvars, wvars, xvars, run_pc, elapsed,
                   cmd_out, printed, captured>>

\* the shell runs the first echo
PrintStart ==
    /\ run_pc = "poll"
    /\ term = "echoed"
    /\ term' = "started"
    /\ UNCHANGED <<pvars, pc, env, screens, fails, cvars, wvars, xvars, run_pc, elapsed,
                   cmd_out, printed, captured>>

\* the command prints its next line
PrintOutput ==
    /\ run_pc = "poll"
    /\ term = "started"
    /\ printed < Len(cmd_out)
    /\ printed' = printed + 1
    /\ UNCHANGED <<pvars, pc, env, screens, fails, cvars, wvars, xvars, run_pc, elapsed,
                   term, cmd_out, captured>>

\* the command has finished and the shell runs the last echo
PrintEnd ==
    /\ run_pc = "poll"
    /\ term = "started"
    /\ printed = Len(cmd_out)
    /\ term' = "finished"
    /\ UNCHANGED <<pvars, pc, env, screens, fails, cvars, wvars, xvars, run_pc, elapsed,
                   cmd_out, printed, captured>>

\* one pass of the polling loop; the window is closed when the loop is left
Poll ==
    /\ run_pc = "poll"
    /\ IF ~(elapsed < MAX_WAIT) THEN
           /\ run_pc' = "closed"
           /\ UNCHANGED <<elapsed, captured>>
       ELSE
           \E full_output \in {JoinLines(ScreenLines(term, cmd_out, printed))} :
               IF Contains(full_output, MARKER_END) THEN
                   /\ captured' = ExtractOutput(full_output)
                   /\ run_pc' = "closed"
                   /\ elapsed' = elapsed
               ELSE
                   /\ elapsed' = elapsed + 1
                   /\ UNCHANGED <<run_pc, captured>>
    /\ UNCHANGED <<pvars, pc, env, screens, fails, cvars, wvars, xvars, term, cmd_out,
                   printed>>

RunnerNext ==
    \/ EchoTyped
    \/ PrintStart
    \/ PrintOutput
    \/ PrintEnd
    \/ Poll

RunnerSpec == RunnerInit /\ [][RunnerNext]_vars

\* ------------------------------------------------ run_codex_resume claims
\* C23: run_codex_resume always leaves its read loop, by one of four ways:
\* the child has exited and what was pending is drained, the timeout has
\* passed, more than 30 s have passed both since the start and since the
\* last output, or a read raised. It then closes the master, sends terminate
\* to a child that p.poll() shows running and kill when the child has not
\* exited in the wait; it never returns leaving a running child unsignalled.
C23_LeavesAndCleansUp ==
    /\ [](wrap_pc \in {"cleanup", "returned"} =>
            /\ left_by \in {"child_exit", "timeout", "idle", "read_error"}
            /\ left_by = "child_exit" => pty = <<>>
            /\ left_by = "timeout" => now >= timeout
            /\ left_by = "idle" => (now - last_output > 30 /\ now > 30))
    /\ [](wrap_pc = "returned" =>
            /\ ~master_open
            /\ polled = "exited" => signals = <<>>
            /\ polled = "running" => (signals # <<>> /\ signals[1] = "terminate")
            /\ child = "running" => signals = <<"terminate", "kill">>
            /\ (polled = "running" /\ child = "exited") => signals = <<"terminate">>)
    /\ <>(wrap_pc = "returned")

\* the loop was left for lack of output, the child ignored terminate and
\* was killed
C23_Witness ==
    /\ wrap_pc = "returned"
    /\ left_by = "idle"
    /\ ~master_open
    /\ child = "running"
    /\ signals = <<"terminate", "kill">>

\* number of places of data where sub starts
Occurrences(data, sub) ==
    Cardinality({i \in 1..(Len(data) - Len(sub) + 1) :
                    SubSeq(data, i, i + Len(sub) - 1) = sub})

\* C24: while the loop reads the child, the loop has written one ESC[1;1R
\* for every ESC[6n and one ESC[?1;2c for every ESC[c or ESC[0c found in
\* the bytes read so far, however they were split across reads.
C24_OneReplyPerQuery ==
    wrap_pc = "loop" =>
        /\ Count(replies, CPR_REPLY) = Occurrences(output, CPR_QUERY)
        /\ Count(replies, DA_REPLY) =
               Occurrences(output, DA_QUERY) + Occurrences(output, DA0_QUERY)

\* ---------------------------------------------------- iterm_runner claims
\* C25: when the polling loop is left before the cap of 600 s, the command
\* has finished and the last echo has printed the end marker, and the
\* captured output is what the command printed between the two printed
\* markers.
C25_WaitsForEndMarker ==
    (run_pc = "closed" /\ elapsed < MAX_WAIT) =>
        /\ term = "finished"
        /\ captured = StripText(JoinLines(cmd_out))

====
